---- MODULE Spec2Model ----
(***************************************************************************)
(* The athlete resource controller (workout_api/atleta/controller.py) as a *)
(* state machine over the athlete table.                                   *)
(*                                                                         *)
(* A post request runs in a slot of Procs and takes two steps: its two     *)
(* lookups, which read the reference tables this controller never writes,  *)
(* and its commit.  Two Creates therefore interleave, with each other and  *)
(* with the other requests.  query, query_with_pagination, patch and       *)
(* delete are one action each.                                             *)
(***************************************************************************)
EXTENDS Integers, Sequences, FiniteSets, TLC

\* ------------------------------------------------------------------ bounds
\* uuid4() values ever stored: ids are 1..MaxId, handed out in order.
MaxId == 2

\* ------------------------------------------------------ program constants
\* the defaults of the limit and offset parameters of GET /all
DefaultLimit == 10
DefaultOffset == 0
\* the page size fastapi_pagination's Page uses when the request names none
DefaultSize == 50

\* ------------------------------------------------------- input universes
Procs == {"p1", "p2"}
Nomes == {"Ana", "Bia"}
CPFs == {"111", "222"}
\* Python's None, and the default of a field of AtletaUpdate that was not sent
None == "None"
Unset == "Unset"

\* the rows of the two reference tables (read-only for this controller)
CategoriaModel == {[pk_id |-> 1, nome |-> "CrossFit"]}
CentroTreinamentoModel == {[pk_id |-> 2, nome |-> "CT Alpha"]}
CategoriaNomes == {c.nome : c \in CategoriaModel} \cup {"Yoga"}
CentroTreinamentoNomes == {c.nome : c \in CentroTreinamentoModel} \cup {"CT Zero"}

\* the request body of post
AtletaIn == [nome : Nomes, cpf : CPFs, categoria : CategoriaNomes,
             centro_treinamento : CentroTreinamentoNomes]
\* the request body of patch: every field is optional
AtletaUpdateFields == {"nome", "cpf"}
AtletaUpdate == [nome : Nomes \cup {Unset}, cpf : CPFs \cup {Unset}]
Ids == 1..MaxId

NoReq == [nome |-> None, cpf |-> None, categoria |-> None, centro_treinamento |-> None]
\* a response: the handler, the status, the detail of its HTTPException, its body
\* and the parameters of the request it answers
NoBody == [none |-> TRUE]
NoResp == [op |-> "none", status |-> 0, detail |-> <<>>, body |-> NoBody, args |-> <<>>]

VARIABLES
    atletas,            \* the rows of AtletaModel in the store (committed)
    nextId,             \* the next value uuid4() / utcnow() hands to a stored row
    pc,                 \* pc[p]: where the post request of slot p stands
    atleta_in,          \* atleta_in[p]: the body of the post request of slot p
    categoria,          \* categoria[p]: pk_id of the CategoriaModel row post found
    centro_treinamento, \* centro_treinamento[p]: pk_id of the centre row post found
    resp,               \* the response of the step just taken (NoResp: none yet)
    created,            \* history: the Creates whose row was not patched or deleted since
    out,                \* history: out[p], the response of the last post of slot p
    conc,               \* history: conc[p], that post overlapped a post with the same cpf
    fresh               \* history: fresh[p], no row had its cpf when that post started

vars == <<atletas, nextId, pc, atleta_in, categoria, centro_treinamento, resp,
          created, out, conc, fresh>>
race == <<out, conc, fresh>>

\* ------------------------------------------------------------- the store
\* first_by_nome without its filter: the first row of the table, whatever its name
first_by_nome_unfiltered(Model, nome) ==
    (CHOOSE c \in Model : TRUE).pk_id

\* select(Model).filter_by(nome=nome) ... .scalars().first(): 0 stands for None
first_by_nome(Model, nome) ==
    IF \E c \in Model : c.nome = nome
    THEN (CHOOSE c \in Model : c.nome = nome).pk_id
    ELSE 0

\* the relationship atleta.categoria.nome / atleta.centro_treinamento.nome
nome_of(Model, pk_id) ==
    IF \E c \in Model : c.pk_id = pk_id
    THEN (CHOOSE c \in Model : c.pk_id = pk_id).nome
    ELSE None

\* select(AtletaModel) ... .scalars().all(): the rows, in insertion order
scalars_all(rows) ==
    LET F[i \in 0..MaxId] ==
            IF i = 0 THEN <<>>
            ELSE IF \E r \in rows : r.id = i
                 THEN Append(F[i - 1], CHOOSE r \in rows : r.id = i)
                 ELSE F[i - 1]
    IN F[MaxId]

\* the unique constraint on AtletaModel.cpf, checked by the store at commit
UniqueViolation(rows, row) ==
    \E r \in rows : r.id # row.id /\ r.cpf = row.cpf

\* uuid4() and datetime.utcnow(): values no stored row has had before
uuid4 == nextId
utcnow == nextId

\* AtletaOut as serialised from a stored row
AtletaOut(row) ==
    [id |-> row.id, created_at |-> row.created_at, nome |-> row.nome, cpf |-> row.cpf,
     categoria |-> nome_of(CategoriaModel, row.categoria_id),
     centro_treinamento |-> nome_of(CentroTreinamentoModel, row.centro_treinamento_id)]

Init ==
    /\ atletas = {}
    /\ nextId = 1
    /\ pc = [p \in Procs |-> "idle"]
    /\ atleta_in = [p \in Procs |-> NoReq]
    /\ categoria = [p \in Procs |-> 0]
    /\ centro_treinamento = [p \in Procs |-> 0]
    /\ resp = NoResp
    /\ created = {}
    /\ out = [p \in Procs |-> NoResp]
    /\ conc = [p \in Procs |-> FALSE]
    /\ fresh = [p \in Procs |-> FALSE]

\* ------------------------------------------------------------------ post
\* a post request returns: its slot is free again
post_return(p, r) ==
    /\ pc' = [pc EXCEPT ![p] = "idle"]
    /\ atleta_in' = [atleta_in EXCEPT ![p] = NoReq]
    /\ categoria' = [categoria EXCEPT ![p] = 0]
    /\ centro_treinamento' = [centro_treinamento EXCEPT ![p] = 0]
    /\ resp' = r

\* lines 32-53: the request arrives; look the category and the training centre
\* up by name, and answer 400 for the first of the two that is missing
post_lookups(p, body) ==
    /\ pc[p] = "idle"
    /\ nextId <= MaxId
    /\ LET cat == first_by_nome(CategoriaModel, body.categoria)
           ct == first_by_nome(CentroTreinamentoModel, body.centro_treinamento)
       IN IF cat = 0
          THEN post_return(p, [op |-> "post", status |-> 400,
                               detail |-> <<"categoria", body.categoria>>,
                               body |-> NoBody, args |-> <<>>])
          ELSE IF ct = 0
          THEN post_return(p, [op |-> "post", status |-> 400,
                               detail |-> <<"centro_treinamento", body.centro_treinamento>>,
                               body |-> NoBody, args |-> <<>>])
          ELSE /\ pc' = [pc EXCEPT ![p] = "commit"]
               /\ atleta_in' = [atleta_in EXCEPT ![p] = body]
               /\ categoria' = [categoria EXCEPT ![p] = cat]
               /\ centro_treinamento' = [centro_treinamento EXCEPT ![p] = ct]
               /\ resp' = NoResp
    /\ UNCHANGED <<atletas, nextId, created>>

\* post_atleta_model with the two foreign keys assigned the wrong way round
post_atleta_model_swapped(body, categoria_pk, centro_pk) ==
    [id |-> uuid4, created_at |-> utcnow, nome |-> body.nome, cpf |-> body.cpf,
     categoria_id |-> centro_pk, centro_treinamento_id |-> categoria_pk]

\* lines 55-59: the AtletaModel row built from the request and the two lookups
post_atleta_model(body, categoria_pk, centro_pk) ==
    [id |-> uuid4, created_at |-> utcnow, nome |-> body.nome, cpf |-> body.cpf,
     categoria_id |-> categoria_pk, centro_treinamento_id |-> centro_pk]

\* line 55: the AtletaOut post returns: the request body plus id and created_at
post_atleta_out(body) ==
    [id |-> uuid4, created_at |-> utcnow, nome |-> body.nome, cpf |-> body.cpf,
     categoria |-> body.categoria, centro_treinamento |-> body.centro_treinamento]

\* commit_raises for a commit that never reports the unique violation
commit_raises_unchecked(rows, row, failure) ==
    IF failure THEN "Exception" ELSE "none"

\* what db_session.commit() raises for the insert of row: a failure of the
\* store that is no constraint violation, the unique violation, or nothing
commit_raises(rows, row, failure) ==
    IF failure THEN "Exception"
    ELSE IF UniqueViolation(rows, row) THEN "IntegrityError"
    ELSE "none"

\* post_response with the IntegrityError swallowed: the record is returned anyway
post_response_swallowed(raised, body) ==
    CASE raised = "Exception" ->
            [op |-> "post", status |-> 500, detail |-> <<"erro ao inserir">>, body |-> NoBody,
             args |-> <<>>]
      [] OTHER ->
            [op |-> "post", status |-> 201, detail |-> <<>>, body |-> post_atleta_out(body),
             args |-> <<>>]

\* post_response with every exception answered as the cpf conflict
post_response_all_conflict(raised, body) ==
    CASE raised \in {"IntegrityError", "Exception"} ->
            [op |-> "post", status |-> 303, detail |-> <<"cpf", body.cpf>>, body |-> NoBody,
             args |-> <<>>]
      [] OTHER ->
            [op |-> "post", status |-> 201, detail |-> <<>>, body |-> post_atleta_out(body),
             args |-> <<>>]

\* lines 63-76: the response of post for what the try block raised
post_response(raised, body) ==
    CASE raised = "IntegrityError" ->
            [op |-> "post", status |-> 303, detail |-> <<"cpf", body.cpf>>, body |-> NoBody,
             args |-> <<>>]
      [] raised = "Exception" ->
            [op |-> "post", status |-> 500, detail |-> <<"erro ao inserir">>, body |-> NoBody,
             args |-> <<>>]
      [] OTHER ->
            [op |-> "post", status |-> 201, detail |-> <<>>, body |-> post_atleta_out(body),
             args |-> <<>>]

\* post_rows for a session that keeps the added row when the commit was rejected
post_rows_kept(rows, row, raised) ==
    IF raised = "Exception" THEN rows ELSE rows \cup {row}

\* the rows of the store after the try block of post
post_rows(rows, row, raised) ==
    IF raised = "none" THEN rows \cup {row} ELSE rows

\* lines 54-76: build the row, add it, commit, answer
post_commit(p, failure) ==
    /\ pc[p] = "commit"
    /\ commit_raises(atletas, post_atleta_model(atleta_in[p], categoria[p],
                                               centro_treinamento[p]), failure) = "none"
          => nextId <= MaxId
    /\ LET row == post_atleta_model(atleta_in[p], categoria[p], centro_treinamento[p])
           raised == commit_raises(atletas, row, failure)
       IN /\ atletas' = post_rows(atletas, row, raised)
          /\ nextId' = IF raised = "none" THEN nextId + 1 ELSE nextId
          /\ created' = IF raised = "none"
                        THEN created \cup {[id |-> post_atleta_out(atleta_in[p]).id,
                                            body |-> atleta_in[p]]}
                        ELSE created
          /\ post_return(p, post_response(raised, atleta_in[p]))

\* ---------------------------------------------------------------- reads
\* Python truth of a query parameter: None and the empty string are false
truthy(x) == x # None /\ x # ""

\* str(uuid) and datetime.isoformat(): the string forms the filtered list returns
str(id) == <<"str", id>>
isoformat(t) == <<"iso", t>>

\* lines 115-121: the rows the filtered select returns
query_select(rows, nome, cpf) ==
    SelectSeq(scalars_all(rows),
              LAMBDA r : /\ (truthy(nome) => r.nome = nome)
                         /\ (truthy(cpf) => r.cpf = cpf))

\* lines 129-138: the projection of one row
query_projection(r) ==
    [id |-> str(r.id), created_at |-> isoformat(r.created_at), nome |-> r.nome,
     centro_treinamento |-> nome_of(CentroTreinamentoModel, r.centro_treinamento_id),
     categoria |-> nome_of(CategoriaModel, r.categoria_id)]

\* lines 110-140: GET /?nome=&cpf=
query(nome, cpf) ==
    /\ LET found == query_select(atletas, nome, cpf)
       IN resp' = IF found = <<>>
                  THEN [op |-> "query", status |-> 404, detail |-> <<"nenhum atleta">>,
                        body |-> NoBody, args |-> <<nome, cpf>>]
                  ELSE [op |-> "query", status |-> 200, detail |-> <<>>,
                        body |-> [items |-> [i \in 1..Len(found) |->
                                                query_projection(found[i])]],
                        args |-> <<nome, cpf>>]
    /\ UNCHANGED <<atletas, nextId, pc, atleta_in, categoria, centro_treinamento, created>>

Min(a, b) == IF a < b THEN a ELSE b

\* fastapi_pagination.paginate(sequence) for Page: the page and size it uses are
\* the request's own page/size parameters, resolved by the library
paginate(sequence, page, size) ==
    [items |-> SubSeq(sequence, (page - 1) * size + 1, Min(page * size, Len(sequence))),
     total |-> Len(sequence), page |-> page, size |-> size]

\* query_with_pagination without the check for the empty collection
query_with_pagination_empty_page(limit, offset, page, size) ==
    /\ LET found == scalars_all(atletas)
       IN resp' = [op |-> "query_with_pagination", status |-> 200, detail |-> <<>>,
                   body |-> paginate([i \in 1..Len(found) |-> AtletaOut(found[i])],
                                     page, size),
                   args |-> <<limit, offset>>]
    /\ UNCHANGED <<atletas, nextId, pc, atleta_in, categoria, centro_treinamento, created>>

\* lines 85-103: GET /all?limit=&offset= ; limit and offset are declared and not used
query_with_pagination(limit, offset, page, size) ==
    /\ LET found == scalars_all(atletas)
       IN resp' = IF found = <<>>
                  THEN [op |-> "query_with_pagination", status |-> 404,
                        detail |-> <<"nenhum atleta">>, body |-> NoBody,
                        args |-> <<limit, offset>>]
                  ELSE [op |-> "query_with_pagination", status |-> 200, detail |-> <<>>,
                        body |-> paginate([i \in 1..Len(found) |-> AtletaOut(found[i])],
                                          page, size),
                        args |-> <<limit, offset>>]
    /\ UNCHANGED <<atletas, nextId, pc, atleta_in, categoria, centro_treinamento, created>>

\* ----------------------------------------------------------------- patch
\* first_by_id without its filter: the first row of the table, whatever its id
first_by_id_unfiltered(rows, id) ==
    IF rows = {} THEN {} ELSE {CHOOSE r \in rows : TRUE}

\* select(AtletaModel).filter_by(id=id) ... .first(): the set holds 0 or 1 row
first_by_id(rows, id) == {r \in rows : r.id = id}

\* atleta_update without exclude_unset: every field is dumped, None for the unset ones
atleta_update_all(atleta_up) ==
    [k \in AtletaUpdateFields |-> IF atleta_up[k] = Unset THEN None ELSE atleta_up[k]]

\* line 160: atleta_up.model_dump(exclude_unset=True), the fields that were sent
atleta_update(atleta_up) ==
    [k \in {f \in AtletaUpdateFields : atleta_up[f] # Unset} |-> atleta_up[k]]

\* lines 161-162: setattr(atleta, key, value) for every dumped field
patch_setattr(row, upd) ==
    [k \in DOMAIN row |-> IF k \in DOMAIN upd THEN upd[k] ELSE row[k]]

\* lines 149-167: PATCH /{id}
patch(id, atleta_up) ==
    /\ LET found == first_by_id(atletas, id)
       IN IF found = {}
          THEN /\ resp' = [op |-> "patch", status |-> 404, detail |-> <<"id", id>>,
                           body |-> NoBody, args |-> <<id>>]
               /\ UNCHANGED <<atletas, created>>
          ELSE LET atleta == CHOOSE r \in found : TRUE
                   patched == patch_setattr(atleta, atleta_update(atleta_up))
               IN IF commit_raises(atletas, patched, FALSE) # "none"
                  \* commit raises IntegrityError, which patch does not catch
                  THEN /\ resp' = [op |-> "patch", status |-> 500, detail |-> <<>>,
                                   body |-> NoBody, args |-> <<id>>]
                       /\ UNCHANGED <<atletas, created>>
                  ELSE /\ atletas' = (atletas \ {atleta}) \cup {patched}
                       /\ created' = {c \in created : c.id # id}
                       /\ resp' = [op |-> "patch", status |-> 200, detail |-> <<>>,
                                   body |-> AtletaOut(patched),
                                   args |-> <<id, atleta_up>>]
    /\ UNCHANGED <<nextId, pc, atleta_in, categoria, centro_treinamento>>

\* ---------------------------------------------------------------- delete
\* lines 175-187: DELETE /{id}
delete(id) ==
    /\ LET found == first_by_id(atletas, id)
       IN IF found = {}
          THEN /\ resp' = [op |-> "delete", status |-> 404, detail |-> <<"id", id>>,
                           body |-> NoBody, args |-> <<id>>]
               /\ UNCHANGED <<atletas, created>>
          ELSE /\ atletas' = atletas \ found
               /\ created' = {c \in created : c.id # id}
               /\ resp' = [op |-> "delete", status |-> 204, detail |-> <<>>,
                           body |-> NoBody, args |-> <<id>>]
    /\ UNCHANGED <<nextId, pc, atleta_in, categoria, centro_treinamento>>

\* ------------------------------------------------------- specifications
\* the values the requests carry
NomeFilters == Nomes \cup {None, ""}
CpfFilters == {None, "111"}
Limits == {1, DefaultLimit}
Offsets == {DefaultOffset, 1}
PageParams == {<<1, DefaultSize>>, <<2, 1>>}

PostLookups ==
    \E p \in Procs, body \in AtletaIn : post_lookups(p, body) /\ UNCHANGED race
PostCommit ==
    \E p \in Procs, failure \in BOOLEAN : post_commit(p, failure) /\ UNCHANGED race
Query ==
    \E nome \in NomeFilters, cpf \in CpfFilters : query(nome, cpf) /\ UNCHANGED race
QueryWithPagination ==
    \E limit \in Limits, offset \in Offsets, params \in PageParams :
        query_with_pagination(limit, offset, params[1], params[2]) /\ UNCHANGED race
Patch ==
    \E id \in Ids, atleta_up \in AtletaUpdate : patch(id, atleta_up) /\ UNCHANGED race
Delete ==
    \E id \in Ids : delete(id) /\ UNCHANGED race

Next ==
    \/ PostLookups
    \/ PostCommit
    \/ Query
    \/ QueryWithPagination
    \/ Patch
    \/ Delete

Spec == Init /\ [][Next]_vars

\* Create requests alone, with the history of each slot's last request kept:
\* its response, whether it overlapped a Create of the same cpf, and whether
\* the store held that cpf when it started.
RaceLookups ==
    \E p \in Procs, body \in AtletaIn :
        /\ post_lookups(p, body)
        /\ LET started == pc'[p] = "commit"
               rival == {q \in Procs \ {p} : pc[q] = "commit" /\ atleta_in[q].cpf = body.cpf}
           IN /\ conc' = [q \in Procs |-> IF q = p THEN started /\ rival # {}
                                         ELSE conc[q] \/ (started /\ q \in rival)]
              /\ fresh' = [fresh EXCEPT ![p] = ~ \E r \in atletas : r.cpf = body.cpf]
              /\ out' = [out EXCEPT ![p] = resp']
RaceCommit ==
    \E p \in Procs, failure \in BOOLEAN :
        /\ post_commit(p, failure)
        /\ out' = [out EXCEPT ![p] = resp']
        /\ UNCHANGED <<conc, fresh>>

NextRace ==
    \/ RaceLookups
    \/ RaceCommit

SpecRace == Init /\ [][NextRace]_vars

\* ---------------------------------------------------------------- claims
CategoriaExists(nome) == \E c \in CategoriaModel : c.nome = nome
CentroTreinamentoExists(nome) == \E c \in CentroTreinamentoModel : c.nome = nome
HasCpf(rows, cpf) == \E r \in rows : r.cpf = cpf
HasId(rows, id) == \E r \in rows : r.id = id

\* C1: a Create whose category name or training-centre name matches no row is
\* answered 400 by its lookup step, which ends the request and leaves the
\* athlete rows exactly as they were.
C1_CreateMissingReference ==
    [][\A p \in Procs, body \in AtletaIn :
          ( /\ pc[p] = "idle"
            /\ pc'[p] # "idle" \/ resp'.op = "post"
            /\ ~ (CategoriaExists(body.categoria)
                  /\ CentroTreinamentoExists(body.centro_treinamento))
            /\ post_lookups(p, body) )
          => /\ resp'.status = 400
             /\ pc'[p] = "idle"
             /\ atletas' = atletas]_vars

\* a Create was answered 400 for its training centre while the store held a row
C1_Witness ==
    /\ resp.op = "post"
    /\ resp.status = 400
    /\ resp.detail[1] = "centro_treinamento"
    /\ atletas # {}

\* C2: a Create, with category and centre found, that commits while a row of
\* the store has its cpf is rejected by the store for the duplicate, is answered
\* 303 naming the cpf, and leaves the rows of the store (so their number) as
\* they were; if the commit fails for another reason first the rows are
\* unchanged all the same.
C2_CreateDuplicateCpf ==
    [][\A p \in Procs, failure \in BOOLEAN :
          ( /\ resp'.op = "post"
            /\ post_commit(p, failure)
            /\ HasCpf(atletas, atleta_in[p].cpf) )
          => /\ atletas' = atletas
             /\ Cardinality(atletas') = Cardinality(atletas)
             /\ ~ failure => /\ resp'.status = 303
                             /\ resp'.detail = <<"cpf", atleta_in[p].cpf>>]_vars

\* a Create was answered 303 for a cpf that a row of the store has
C2_Witness ==
    /\ resp.op = "post"
    /\ resp.status = 303
    /\ HasCpf(atletas, resp.detail[2])

\* C3: no two rows of the store have the same cpf.
C3_CpfUnique ==
    \A r1 \in atletas, r2 \in atletas : r1.cpf = r2.cpf => r1 = r2

\* two rows are stored and a patch that would have given one the other's cpf
\* was just refused
C3_Witness ==
    /\ Cardinality(atletas) = 2
    /\ resp.op = "patch"
    /\ resp.status = 500

\* the last Creates of the two slots overlapped with the same cpf, passed their
\* lookups and got an answer from the store's constraint check
Raced(p, q) ==
    /\ p # q
    /\ pc[p] = "idle" /\ pc[q] = "idle"
    /\ conc[p] /\ conc[q]
    /\ out[p].status \in {201, 303}
    /\ out[q].status \in {201, 303}

\* one of the two committed its row and returned it, the other got the conflict
OneWinner(p, q) ==
    \E w \in {p, q} :
        LET l == CHOOSE x \in {p, q} : x # w
        IN /\ out[w].status = 201
           /\ \E r \in atletas : r.id = out[w].body.id /\ r.cpf = out[w].body.cpf
           /\ out[l].status = 303
           /\ out[l].detail = <<"cpf", out[w].body.cpf>>

\* C4 as claimed: of two concurrent Creates of one cpf exactly one commits and
\* the other gets the conflict error.
C4_RaceOneWinner ==
    \A p \in Procs, q \in Procs : Raced(p, q) => OneWinner(p, q)

\* C4 as amended: the same, when no row of the store had the cpf as either of
\* the two requests started.
C4_RaceOneWinnerFresh ==
    \A p \in Procs, q \in Procs :
        (Raced(p, q) /\ fresh[p] /\ fresh[q]) => OneWinner(p, q)

\* two Creates of a cpf new to the store raced, and one won
C4_Witness ==
    \E p \in Procs, q \in Procs :
        /\ Raced(p, q) /\ fresh[p] /\ fresh[q]
        /\ out[p].status = 201
        /\ out[q].status = 303

\* C5: a successful patch gives the row of that id the supplied values in the
\* supplied fields, keeps every other field of it (id and created_at among
\* them), and leaves every other row alone.
C5_PatchFrame ==
    [][\A id \in Ids, atleta_up \in AtletaUpdate :
          ( /\ resp'.op = "patch"
            /\ resp'.status = 200
            /\ resp'.args = <<id, atleta_up>>
            /\ patch(id, atleta_up) )
          => \E old \in atletas, new \in atletas' :
                /\ old.id = id
                /\ new.id = id
                /\ new.created_at = old.created_at
                /\ \A f \in DOMAIN old :
                      new[f] = IF f \in AtletaUpdateFields /\ atleta_up[f] # Unset
                               THEN atleta_up[f]
                               ELSE old[f]
                /\ atletas' \ {new} = atletas \ {old}]_vars

\* a patch that supplied only nome succeeded on one of two stored rows
C5_Witness ==
    /\ resp.op = "patch"
    /\ resp.status = 200
    /\ resp.args[2].nome = "Bia"
    /\ resp.args[2].cpf = Unset
    /\ Cardinality(atletas) = 2
    /\ \E r \in atletas : r.id = resp.args[1] /\ r.nome = "Bia" /\ r.created_at = r.id

\* C6: a delete of a stored id is answered 204 with no body and removes that
\* row and no other; an id that was issued and is no longer stored never
\* comes back, and a delete of an id that is not stored is answered 404 and
\* changes nothing.
C6_DeleteThenNotFound ==
    [][/\ \A id \in Ids :
            (resp'.op = "delete" /\ resp'.args = <<id>> /\ delete(id))
            => IF HasId(atletas, id)
               THEN /\ resp'.status = 204
                    /\ resp'.body = NoBody
                    /\ atletas' = {r \in atletas : r.id # id}
                    /\ Cardinality(atletas') = Cardinality(atletas) - 1
               ELSE /\ resp'.status = 404
                    /\ resp'.detail = <<"id", id>>
                    /\ atletas' = atletas
       /\ \A id \in Ids :
            (id < nextId /\ ~ HasId(atletas, id)) => ~ HasId(atletas', id)]_vars

\* a delete of an id that had been created and deleted before was answered 404
C6_Witness ==
    /\ resp.op = "delete"
    /\ resp.status = 404
    /\ resp.args[1] < nextId
    /\ ~ HasId(atletas, resp.args[1])

\* C7: a filtered list by nome alone, for the nome of a Create that succeeded
\* and whose row was neither patched nor deleted since, succeeds and holds a
\* projection with the id that Create returned and the category and centre
\* names it was given.
C7_CreateThenQuery ==
    [][\A nome \in NomeFilters, cpf \in CpfFilters :
          ( /\ resp'.op = "query"
            /\ resp'.args = <<nome, cpf>>
            /\ ~ truthy(cpf)
            /\ query(nome, cpf) )
          => \A c \in created :
                c.body.nome = nome
                => /\ resp'.status = 200
                   /\ \E i \in 1..Len(resp'.body.items) :
                         /\ resp'.body.items[i].id = str(c.id)
                         /\ resp'.body.items[i].nome = nome
                         /\ resp'.body.items[i].categoria = c.body.categoria
                         /\ resp'.body.items[i].centro_treinamento
                               = c.body.centro_treinamento]_vars

\* a list filtered by nome returned one of two stored rows, the row of a Create
C7_Witness ==
    /\ resp.op = "query"
    /\ resp.status = 200
    /\ resp.args = <<"Ana", None>>
    /\ Len(resp.body.items) = 1
    /\ Cardinality(atletas) = 2
    /\ \E c \in created : c.body.nome = "Ana" /\ resp.body.items[1].id = str(c.id)

\* the slice of a sequence that limit and offset select
Slice(sequence, limit, offset) ==
    SubSeq(sequence, offset + 1, Min(offset + limit, Len(sequence)))

\* C8: on a non-empty collection the paginated list returns the athletes that
\* limit and offset select: at most limit of them, after the first offset.
C8_PaginationByLimitOffset ==
    [][\A limit \in Limits, offset \in Offsets, params \in PageParams :
          ( /\ resp'.op = "query_with_pagination"
            /\ resp'.args = <<limit, offset>>
            /\ atletas # {}
            /\ query_with_pagination(limit, offset, params[1], params[2]) )
          => LET all == scalars_all(atletas)
             IN resp'.body.items
                   = Slice([i \in 1..Len(all) |-> AtletaOut(all[i])], limit, offset)]_vars

\* C9: the paginated list answers 404 exactly when the collection is empty.
C9_PaginationEmptyNotFound ==
    [][\A limit \in Limits, offset \in Offsets, params \in PageParams :
          ( /\ resp'.op = "query_with_pagination"
            /\ resp'.args = <<limit, offset>>
            /\ query_with_pagination(limit, offset, params[1], params[2]) )
          => IF atletas = {}
             THEN resp'.status = 404 /\ resp'.body = NoBody
             ELSE resp'.status = 200]_vars

\* the paginated list was answered 404 on a store emptied by a delete
C9_Witness ==
    /\ resp.op = "query_with_pagination"
    /\ resp.status = 404
    /\ atletas = {}
    /\ nextId > 1

====
